---------------------------- MODULE Spec2Model ----------------------------
(***************************************************************************)
(* A model of the redis_hnsw module: the command handlers of src/lib.rs    *)
(* (hnsw.new, hnsw.get, hnsw.del, hnsw.node.add, hnsw.node.get,            *)
(* hnsw.node.del, hnsw.search) over the host key space and the process     *)
(* wide registry INDICES.                                                  *)
(*                                                                         *)
(* The graph engine (mod hnsw) and the record types (mod types) are not    *)
(* among the source files; their operators below follow the design         *)
(* document (sections 3, 4.5 - 4.8) and are marked "design" in the         *)
(* comments.  Everything else follows src/src/lib.rs line by line.         *)
(*                                                                         *)
(* A command is one atomic step: the host runs commands one at a time on   *)
(* its dispatch thread.  A Rust panic inside a handler leaves through the  *)
(* host's C frames, which nothing catches: the process dies and comes back *)
(* with an empty registry and the key space as it was at the panic.        *)
(***************************************************************************)
EXTENDS Integers, Sequences, FiniteSets, TLC

VARIABLES
    store,      \* the host key space: key -> value (typed)
    registry,   \* INDICES: index key -> in-memory index, or NoIndex
    last,       \* the command the host ran last, and its reply
    adds,       \* the number of insertions that succeeded so far
    gil,        \* the host's global lock: how often its holder has taken it
    rw,         \* the RwLock of INDICES: how it is held
    run         \* the handler the dispatch thread is in, and its position

locks == <<gil, rw, run>>
vars == <<store, registry, last, adds, gil, rw, run>>

(***************************************************************************)
(* Bounds of the model.                                                    *)
(***************************************************************************)
MaxLevel == 1           \* sampled levels are drawn from 0..MaxLevel
MaxAdds == 3            \* insertions that succeed, over the whole run
MaxDropNodes == 1       \* hnsw.del is sent to an index of at most this many nodes
MaxFlatAdds == 4        \* insertions that succeed in a run of SpecFlat
MaxCallbacks == 2       \* on_mutate calls of one insertion or deletion

(***************************************************************************)
(* Program constants.                                                      *)
(***************************************************************************)
DefaultDim == 512
DefaultM == 5
DefaultEf == 200

PREFIX == "hnsw"

(***************************************************************************)
(* The names the commands are given.                                       *)
(***************************************************************************)
IndexNames == {"i"}
NodeNames == {"m", "n", "o"}
MoreNodeNames == NodeNames \cup {"p"}

\* Names with a dot in them: the commands take any string as a name.
DotIndexNames == {"a", "a.b"}
DotNodeNames == {"c", "b.c"}

IndexKey(name) == PREFIX \o "." \o name
NodeKey(index, node) == PREFIX \o "." \o index \o "." \o node

IndexKeys == {IndexKey(i) : i \in IndexNames \cup DotIndexNames}
NodeKeys ==
    {NodeKey(i, n) : i \in IndexNames, n \in MoreNodeNames}
        \cup {NodeKey(i, n) : i \in DotIndexNames, n \in DotNodeNames}
Keys == IndexKeys \cup NodeKeys

\* Byte order of the keys (String's Ord), for the keys of this model.
KeyOrder ==
    <<"hnsw.a", "hnsw.a.b", "hnsw.a.b.b.c", "hnsw.a.b.c", "hnsw.a.c",
      "hnsw.i", "hnsw.i.m", "hnsw.i.n", "hnsw.i.o", "hnsw.i.p">>
KeyRank(k) == CHOOSE r \in 1..Len(KeyOrder) : KeyOrder[r] = k

None == "<none>"        \* Option::None
Gone == "<gone>"        \* a weak reference whose node was dropped
NoIndex == [present |-> FALSE]
Empty == [type |-> "empty"]
NoNodes == [k \in {} |-> Empty]       \* an empty HashMap of nodes

(***************************************************************************)
(* Argument parsing (redis_module::parse_unsigned_integer, parse_float).   *)
(***************************************************************************)
NumberOf == ("0" :> 0) @@ ("1" :> 1) @@ ("2" :> 2) @@ ("3" :> 3)

parse_unsigned_integer(s) ==
    IF s \in DOMAIN NumberOf THEN [ok |-> TRUE, val |-> NumberOf[s]]
    ELSE [ok |-> FALSE, val |-> 0]

parse_float(s) ==
    IF s \in DOMAIN NumberOf THEN [ok |-> TRUE, val |-> NumberOf[s]]
    ELSE [ok |-> FALSE, val |-> 0]

\* args[3..].iter().map(parse_float).collect::<Result<Vec<_>, _>>()
ParseVector(tokens) ==
    IF \A j \in 1..Len(tokens) : parse_float(tokens[j]).ok
    THEN [ok |-> TRUE, val |-> [j \in 1..Len(tokens) |-> parse_float(tokens[j]).val]]
    ELSE [ok |-> FALSE, val |-> <<>>]

(***************************************************************************)
(* Typed access to a key (redis_module get_value::<T>(type)): a key that   *)
(* holds a value of another type answers WRONGTYPE.                        *)
(***************************************************************************)
get_value(st, key, type) ==
    IF st[key].type = "empty" THEN [err |-> FALSE, some |-> FALSE]
    ELSE IF st[key].type = type THEN [err |-> FALSE, some |-> TRUE]
    ELSE [err |-> TRUE, some |-> FALSE]

(***************************************************************************)
(* The graph engine (design, sections 3 and 4.1 - 4.7).                    *)
(*                                                                         *)
(* An in-memory index is a record                                          *)
(*   [present, name, dim, m, m_max, m_max_0, ef_construction,              *)
(*    nodes, layers, enterpoint]                                           *)
(* nodes maps a node key to [data, neighbors]; neighbors[l + 1] is the     *)
(* list of weak references of layer l, a reference being a node key or     *)
(* Gone; layers[l + 1] is the membership set of layer l.                   *)
(***************************************************************************)
IndexNew(name, dim, m, ef) ==
    [present |-> TRUE, name |-> name, dim |-> dim, m |-> m, m_max |-> m,
     m_max_0 |-> 2 * m, ef_construction |-> ef,
     nodes |-> NoNodes, layers |-> <<>>, enterpoint |-> None]

NodeNew(data) == [data |-> data, neighbors |-> <<>>]

RECURSIVE SumSq(_, _, _)
SumSq(u, v, j) ==
    IF j > Len(u) THEN 0
    ELSE (u[j] - v[j]) * (u[j] - v[j]) + SumSq(u, v, j + 1)

\* metrics::euclidean: the squared Euclidean distance.
euclidean(u, v) == SumSq(u, v, 1)

DistTo(idx, q, n) == euclidean(q, idx.nodes[n].data)

\* (distance, name) order of the frontiers: equal distances compare by name.
Closer(idx, q, a, b) ==
    \/ DistTo(idx, q, a) < DistTo(idx, q, b)
    \/ DistTo(idx, q, a) = DistTo(idx, q, b) /\ KeyRank(a) < KeyRank(b)

Nearest(idx, q, S) == CHOOSE a \in S : \A b \in S \ {a} : Closer(idx, q, a, b)
Farthest(idx, q, S) == CHOOSE a \in S : \A b \in S \ {a} : Closer(idx, q, b, a)

RECURSIVE SortByDist(_, _, _)
SortByDist(idx, q, S) ==
    IF S = {} THEN <<>>
    ELSE LET a == Nearest(idx, q, S)
         IN <<a>> \o SortByDist(idx, q, S \ {a})

Take(s, n) == SubSeq(s, 1, IF n < Len(s) THEN n ELSE Len(s))
Range(s) == {s[j] : j \in 1..Len(s)}
Live(s) == SelectSeq(s, LAMBDA r : r # Gone)
TopLevel(idx) == Len(idx.layers) - 1
Level(node) == Len(node.neighbors) - 1

\* The live neighbours of c at layer l (a dead reference resolves to "gone").
NeighborsAt(idx, c, l) ==
    IF l + 1 <= Len(idx.nodes[c].neighbors)
    THEN Live(idx.nodes[c].neighbors[l + 1]) ELSE <<>>

\* Step 2 of search_layer for the neighbours of one popped candidate.
RECURSIVE Expand(_, _, _, _, _, _, _)
Expand(idx, q, ef, nbrs, C, W, V) ==
    IF nbrs = <<>> THEN [C |-> C, W |-> W, V |-> V]
    ELSE LET e == Head(nbrs) IN
         IF e \in V THEN Expand(idx, q, ef, Tail(nbrs), C, W, V)
         ELSE LET f == Farthest(idx, q, W)
                  full == Cardinality(W) >= ef
                  take == DistTo(idx, q, e) < DistTo(idx, q, f) \/ ~full
                  W1 == IF ~take THEN W
                        ELSE IF full THEN (W \ {f}) \cup {e} ELSE W \cup {e}
                  C1 == IF take THEN C \cup {e} ELSE C
              IN Expand(idx, q, ef, Tail(nbrs), C1, W1, V \cup {e})

RECURSIVE SearchLoop(_, _, _, _, _, _, _)
SearchLoop(idx, q, ef, l, C, W, V) ==
    IF C = {} THEN W
    ELSE LET c == Nearest(idx, q, C)
             f == Farthest(idx, q, W)
         IN IF DistTo(idx, q, c) > DistTo(idx, q, f) /\ Cardinality(W) = ef
            THEN W
            ELSE LET r == Expand(idx, q, ef, NeighborsAt(idx, c, l),
                                 C \ {c}, W, V)
                 IN SearchLoop(idx, q, ef, l, r.C, r.W, r.V)

\* search_layer(q, entries, ef, l): the set W of accepted nodes.
search_layer(idx, q, entries, ef, l) ==
    SearchLoop(idx, q, ef, l, entries,
               Range(Take(SortByDist(idx, q, entries), ef)), entries)

\* Greedy descent with ef = 1 from layer `from` down to layer `to`.
RECURSIVE Descend(_, _, _, _, _)
Descend(idx, q, ep, from, to) ==
    IF from < to THEN ep
    ELSE Descend(idx, q,
                 Nearest(idx, q, search_layer(idx, q, {ep}, 1, from)),
                 from - 1, to)

Max(a, b) == IF a > b THEN a ELSE b
Min(a, b) == IF a < b THEN a ELSE b

\* Index::search_knn(q, k): the names of the k nearest found, nearest first.
IndexSearchKnn(idx, q, k) ==
    IF idx.enterpoint = None THEN <<>>
    ELSE LET ep == Descend(idx, q, idx.enterpoint, TopLevel(idx), 1)
             W == search_layer(idx, q, {ep}, Max(idx.ef_construction, k), 0)
         IN Take(SortByDist(idx, q, W), k)

\* The neighbour-selection heuristic: up to `count` of `cands`, seen from the
\* vector `base`.
RECURSIVE SelectLoop(_, _, _, _, _)
SelectLoop(idx, base, cands, count, acc) ==
    IF cands = {} \/ Len(acc) >= count THEN acc
    ELSE LET c == Nearest(idx, base, cands)
             ok == \A j \in 1..Len(acc) :
                       DistTo(idx, base, c)
                           < euclidean(idx.nodes[c].data, idx.nodes[acc[j]].data)
         IN SelectLoop(idx, base, cands \ {c}, count,
                       IF ok THEN Append(acc, c) ELSE acc)

select_neighbors(idx, base, cands, count) ==
    SelectLoop(idx, base, cands, count, <<>>)

Cap(idx, l) == IF l = 0 THEN idx.m_max_0 ELSE idx.m_max

SetNeighbors(idx, n, l, list) ==
    [idx EXCEPT !.nodes[n].neighbors[l + 1] = list]

\* Step 5d with the list left as it is.
Shrink_Keep(idx, r, l, list) == list

\* Insertion step 5d for one accepted neighbour r, `list` its list with v
\* added: a list over its cap is selected again, seen from r.
Shrink(idx, r, l, list) ==
    IF Len(list) > Cap(idx, l)
    THEN select_neighbors(idx, idx.nodes[r].data, Range(Live(list)), idx.m)
    ELSE list

\* Insertion step 5d: v is added to the list of each accepted neighbour.
RECURSIVE BackLink(_, _, _, _)
BackLink(idx, v, l, sel) ==
    IF sel = <<>> THEN idx
    ELSE BackLink(
             SetNeighbors(idx, Head(sel), l,
                 Shrink(idx, Head(sel), l,
                        Append(idx.nodes[Head(sel)].neighbors[l + 1], v))),
             v, l, Tail(sel))

\* Insertion steps 5b - 5d at layer l, W the result of the layer search and
\* sel the neighbours selected from it: the index and the next entry point.
Wire(idx, v, l, W, sel) ==
    [index |-> BackLink(SetNeighbors(idx, v, l, sel), v, l, sel),
     ep |-> Nearest(idx, idx.nodes[v].data, W),
     changed |-> Range(sel)]

ConnectLayer(idx, v, l, W) ==
    Wire(idx, v, l, W, select_neighbors(idx, idx.nodes[v].data, W, idx.m))

\* Insertion step 5, from layer l down to layer 0.
RECURSIVE ConnectLayers(_, _, _, _, _)
ConnectNext(wired, v, l, changed) ==
    ConnectLayers(wired.index, v, l - 1, wired.ep, changed \cup wired.changed)

ConnectLayers(idx, v, l, ep, changed) ==
    IF l < 0 THEN [index |-> idx, changed |-> changed]
    ELSE ConnectNext(
             ConnectLayer(idx, v, l,
                 search_layer(idx, idx.nodes[v].data, {ep},
                              idx.ef_construction, l)),
             v, l, changed)

\* Insertion step 6: v joins layers 0..level; layers grow as needed.
AddToLayers(layers, v, level) ==
    [j \in 1..Max(Len(layers), level + 1) |->
        IF j <= level + 1
        THEN (IF j <= Len(layers) THEN layers[j] ELSE {}) \cup {v}
        ELSE layers[j]]

\* Insertion steps 6 - 8 after the wiring c of the node.
Inserted(idx, name, data, level, c) ==
    [err |-> None,
     index |-> [c.index EXCEPT
                  !.layers = AddToLayers(idx.layers, name, level),
                  !.enterpoint = IF level > TopLevel(idx) THEN name
                                 ELSE idx.enterpoint],
     mutated |-> <<name>> \o SortByDist(c.index, data, c.changed)]

\* Insertion steps 3 - 5, idx0 the index with the unwired node in its map.
InsertInto(idx, idx0, name, data, level) ==
    IF idx.enterpoint = None
    THEN [err |-> None,
          index |-> [idx0 EXCEPT !.layers = AddToLayers(<<>>, name, level),
                                 !.enterpoint = name],
          mutated |-> <<name>>]
    ELSE Inserted(idx, name, data, level,
             ConnectLayers(idx0, name, Min(TopLevel(idx), level),
                 Descend(idx0, data, idx.enterpoint, TopLevel(idx), level + 1),
                 {}))

\* Index::add_node(name, data, on_mutate) with the sampled level:
\* [err, index, mutated], mutated the nodes on_mutate is called for, in order.
IndexAddNode(idx, name, data, level) ==
    IF name \in DOMAIN idx.nodes
    THEN [err |-> "DuplicateNode", index |-> idx, mutated |-> <<>>]
    ELSE IF Len(data) # idx.dim
    THEN [err |-> "DimensionMismatch", index |-> idx, mutated |-> <<>>]
    ELSE InsertInto(idx,
             [idx EXCEPT !.nodes =
                 (name :> [data |-> data,
                           neighbors |-> [j \in 1..(level + 1) |-> <<>>]])
                 @@ idx.nodes],
             name, data, level)

RemoveRef(list, d) == SelectSeq(list, LAMBDA r : r # d)
KillRef(list, d) == [j \in 1..Len(list) |-> IF list[j] = d THEN Gone ELSE list[j]]

\* The neighbours the deleted node d lists at layer l (deletion step 3).
FormerNeighbors(idx, d, l) == Live(idx.nodes[d].neighbors[l + 1])

\* Deletion step 4 at layer l: d leaves the list of each node it lists.
RECURSIVE Unlink(_, _, _, _)
Unlink(idx, d, l, rs) ==
    IF rs = <<>> THEN idx
    ELSE Unlink(
             IF l + 1 <= Len(idx.nodes[Head(rs)].neighbors)
             THEN SetNeighbors(idx, Head(rs), l,
                      RemoveRef(idx.nodes[Head(rs)].neighbors[l + 1], d))
             ELSE idx,
             d, l, Tail(rs))

\* Deletion step 5 at layer l: the list of each former neighbour r is selected
\* again from its own neighbours and the other former neighbours of d.
RECURSIVE Repair(_, _, _, _, _)
Repair(idx, d, l, rs, former) ==
    IF rs = <<>> THEN idx
    ELSE Repair(
             IF l + 1 <= Len(idx.nodes[Head(rs)].neighbors)
             THEN SetNeighbors(idx, Head(rs), l,
                      select_neighbors(idx, idx.nodes[Head(rs)].data,
                          (Range(Live(idx.nodes[Head(rs)].neighbors[l + 1]))
                              \cup former) \ {Head(rs), d},
                          idx.m))
             ELSE idx,
             d, l, Tail(rs), former)

RepairLayer(idx, d, l, rs) == Repair(Unlink(idx, d, l, rs), d, l, rs, Range(rs))

\* Deletion steps 3 - 5 for the layers l, l - 1, ..., 0 of d.
RECURSIVE RepairLayers(_, _, _)
RepairLayers(idx, d, l) ==
    IF l < 0 THEN idx
    ELSE RepairLayers(RepairLayer(idx, d, l, FormerNeighbors(idx, d, l)), d, l - 1)

\* Deletion step 6: d leaves every layer; empty top layers are cut.
RECURSIVE Truncate(_)
Truncate(layers) ==
    IF layers # <<>> /\ layers[Len(layers)] = {}
    THEN Truncate(SubSeq(layers, 1, Len(layers) - 1))
    ELSE layers

RemoveFromLayers(layers, d) ==
    Truncate([j \in 1..Len(layers) |-> layers[j] \ {d}])

\* Deletion step 7: the entry points the deletion of d may leave.
TopOrNone(layers) == IF layers = <<>> THEN {None} ELSE layers[Len(layers)]

EnterpointChoices(idx, d) ==
    IF idx.enterpoint # d THEN {idx.enterpoint}
    ELSE TopOrNone(RemoveFromLayers(idx.layers, d))

\* Deletion step 8: d is dropped, and every weak reference to it is dead.
Destroy(nodes, d) ==
    [n \in DOMAIN nodes \ {d} |->
        [nodes[n] EXCEPT !.neighbors =
            [j \in 1..Len(nodes[n].neighbors) |-> KillRef(nodes[n].neighbors[j], d)]]]

\* Deletion steps 6 - 9, idx1 the index with the neighbourhoods repaired.
Deleted(idx, idx1, name, pick) ==
    [err |-> None,
     index |-> [idx1 EXCEPT
                  !.layers = RemoveFromLayers(idx.layers, name),
                  !.enterpoint = pick,
                  !.nodes = Destroy(idx1.nodes, name)],
     mutated |-> SortByDist(idx, idx.nodes[name].data,
                     UNION {Range(FormerNeighbors(idx, name, l)) :
                               l \in 0..Level(idx.nodes[name])})]

\* Index::delete_node(name, on_mutate), `pick` the entry point chosen in
\* step 7: [err, index, mutated].
IndexDeleteNode(idx, name, pick) ==
    IF name \notin DOMAIN idx.nodes
    THEN [err |-> "UnknownNode", index |-> idx, mutated |-> <<>>]
    ELSE Deleted(idx, RepairLayers(idx, name, Level(idx.nodes[name])), name, pick)

(***************************************************************************)
(* The persisted records (design, section 4.8).                            *)
(***************************************************************************)
\* IndexRedis from an index: the snapshot of the index.
IndexRedisFrom(idx) ==
    [type |-> "index", name |-> idx.name, dim |-> idx.dim, m |-> idx.m,
     ef_construction |-> idx.ef_construction,
     node_count |-> Cardinality(DOMAIN idx.nodes),
     nodes |-> DOMAIN idx.nodes,
     layers |-> idx.layers,
     enterpoint |-> idx.enterpoint]

\* NodeRedis from a node: its vector and the names of the nodes its weak
\* references resolve to, layer by layer.
NodeRedisFrom(node) ==
    [type |-> "node", data |-> node.data,
     neighbors |-> [j \in 1..Len(node.neighbors) |-> Live(node.neighbors[j])]]

\* Index from IndexRedis: the hyperparameters, with no nodes yet.
IndexFromRedis(ir) == IndexNew(ir.name, ir.dim, ir.m, ir.ef_construction)

(***************************************************************************)
(* src/lib.rs.  A handler is an operator of the key space and the registry *)
(* before the command; it gives [store, registry, res, reply] after it.    *)
(* A handler is written as one operator per stage, the value the stage     *)
(* computes being handed to the next.                                      *)
(***************************************************************************)
NoRegistry == [k \in IndexKeys |-> NoIndex]

Out(st, reg, res) == [store |-> st, registry |-> reg, res |-> res, reply |-> <<>>]

\* A panic: the process is gone, and with it the registry.
Panic(st) == Out(st, NoRegistry, "panic")

\* make_index, first pass: the nodes of the index record, without neighbours.
MakeNodes(st, ir) == [n \in ir.nodes |-> NodeNew(st[n].data)]

\* make_index, second pass: the neighbour lists of the node records.
WireNodes(st, ir, nodes) ==
    [n \in ir.nodes |-> [nodes[n] EXCEPT !.neighbors = st[n].neighbors]]

\* A node record of the index names a node the index does not hold.
DanglingNeighbor(st, ir) ==
    \E n \in ir.nodes :
        \E j \in 1..Len(st[n].neighbors) :
            \E x \in 1..Len(st[n].neighbors[j]) :
                st[n].neighbors[j][x] \notin ir.nodes

\* make_index with the entry point of the record left out.
make_index_NoEnterpoint(st, ir) ==
    IF \E n \in ir.nodes : get_value(st, n, "node").err
    THEN [err |-> "WrongType", index |-> NoIndex]
    ELSE IF \E n \in ir.nodes : ~get_value(st, n, "node").some
    THEN [err |-> "NodeMissing", index |-> NoIndex]
    ELSE IF DanglingNeighbor(st, ir)
    THEN [err |-> "NodeMissing", index |-> NoIndex]
    ELSE IF \E j \in 1..Len(ir.layers) : ~(ir.layers[j] \subseteq ir.nodes)
    THEN [err |-> "NodeMissing", index |-> NoIndex]
    ELSE [err |-> None,
          index |-> [IndexFromRedis(ir) EXCEPT
                       !.nodes = WireNodes(st, ir, MakeNodes(st, ir)),
                       !.layers = ir.layers]]

\* make_index with a neighbour that is not among the nodes skipped.
make_index_SkipDangling(st, ir) ==
    IF \E n \in ir.nodes : get_value(st, n, "node").err
    THEN [err |-> "WrongType", index |-> NoIndex]
    ELSE IF \E n \in ir.nodes : ~get_value(st, n, "node").some
    THEN [err |-> "NodeMissing", index |-> NoIndex]
    ELSE IF \E j \in 1..Len(ir.layers) : ~(ir.layers[j] \subseteq ir.nodes)
    THEN [err |-> "NodeMissing", index |-> NoIndex]
    ELSE IF ir.enterpoint # None /\ ir.enterpoint \notin ir.nodes
    THEN [err |-> "NodeMissing", index |-> NoIndex]
    ELSE [err |-> None,
          index |-> [IndexFromRedis(ir) EXCEPT
                       !.nodes = [n \in ir.nodes |->
                           [data |-> st[n].data,
                            neighbors |-> [j \in 1..Len(st[n].neighbors) |->
                                SelectSeq(st[n].neighbors[j],
                                          LAMBDA x : x \in ir.nodes)]]],
                       !.layers = ir.layers,
                       !.enterpoint = ir.enterpoint]]

\* make_index: the in-memory index of an index record, [err, index].
make_index(st, ir) ==
    IF \E n \in ir.nodes : get_value(st, n, "node").err
    THEN [err |-> "WrongType", index |-> NoIndex]
    ELSE IF \E n \in ir.nodes : ~get_value(st, n, "node").some
    THEN [err |-> "NodeMissing", index |-> NoIndex]
    ELSE IF DanglingNeighbor(st, ir)
    THEN [err |-> "NodeMissing", index |-> NoIndex]
    ELSE IF \E j \in 1..Len(ir.layers) : ~(ir.layers[j] \subseteq ir.nodes)
    THEN [err |-> "NodeMissing", index |-> NoIndex]
    ELSE IF ir.enterpoint # None /\ ir.enterpoint \notin ir.nodes
    THEN [err |-> "NodeMissing", index |-> NoIndex]
    ELSE [err |-> None,
          index |-> [IndexFromRedis(ir) EXCEPT
                       !.nodes = WireNodes(st, ir, MakeNodes(st, ir)),
                       !.layers = ir.layers,
                       !.enterpoint = ir.enterpoint]]

\* load_index, the vacant entry: the index made is inserted.
LoadMade(reg, index_name, mk) ==
    IF mk.err # None
    THEN [err |-> mk.err, registry |-> reg, index |-> NoIndex]
    ELSE [err |-> None,
          registry |-> [reg EXCEPT ![index_name] = mk.index],
          index |-> mk.index]

\* load_index: the index of the registry, loaded from the key space when the
\* registry does not hold it: [err, registry, index].
load_index(st, reg, index_name) ==
    IF reg[index_name].present
    THEN [err |-> None, registry |-> reg, index |-> reg[index_name]]
    ELSE IF get_value(st, index_name, "index").err
    THEN [err |-> "WrongType", registry |-> reg, index |-> NoIndex]
    ELSE IF ~get_value(st, index_name, "index").some
    THEN [err |-> "IndexMissing", registry |-> reg, index |-> NoIndex]
    ELSE LoadMade(reg, index_name, make_index(st, st[index_name]))

\* The hyperparameter at position j of the optional arguments of hnsw.new.
HyperParam(args, j, default) ==
    IF Len(args) >= j THEN parse_unsigned_integer(args[j])
    ELSE [ok |-> TRUE, val |-> default]

\* new_index, the index created: written to the key space and registered.
NewCreated(st, reg, index_name, index) ==
    Out([st EXCEPT ![index_name] = IndexRedisFrom(index)],
        [reg EXCEPT ![index_name] = index], "OK")

\* new_index asking the registry, not the key space, whether the index exists.
new_index_AsksRegistry(st, reg, name, args) ==
    IF \E j \in 1..3 : ~HyperParam(args, j, 0).ok
    THEN Out(st, reg, "ParseError")
    ELSE IF reg[IndexKey(name)].present
    THEN Out(st, reg, "IndexExists")
    ELSE NewCreated(st, reg, IndexKey(name),
             IndexNew(IndexKey(name),
                      HyperParam(args, 1, DefaultDim).val,
                      HyperParam(args, 2, DefaultM).val,
                      HyperParam(args, 3, DefaultEf).val))

new_index(st, reg, name, args) ==
    IF \E j \in 1..3 : ~HyperParam(args, j, 0).ok
    THEN Out(st, reg, "ParseError")
    ELSE IF get_value(st, IndexKey(name), "index").err
    THEN Out(st, reg, "WrongType")
    ELSE IF get_value(st, IndexKey(name), "index").some
    THEN Out(st, reg, "IndexExists")
    ELSE NewCreated(st, reg, IndexKey(name),
             IndexNew(IndexKey(name),
                      HyperParam(args, 1, DefaultDim).val,
                      HyperParam(args, 2, DefaultM).val,
                      HyperParam(args, 3, DefaultEf).val))

GetLoaded(st, reg, ld) ==
    IF ld.err # None THEN Out(st, reg, ld.err)
    ELSE [Out(st, ld.registry, "OK") EXCEPT !.reply = <<IndexRedisFrom(ld.index)>>]

get_index(st, reg, name) == GetLoaded(st, reg, load_index(st, reg, IndexKey(name)))

\* delete_index, the record deleted (st1): the registry entry is removed.
DeleteRegistered(st1, reg, index_name) ==
    IF ~reg[index_name].present THEN Out(st1, reg, "IndexMissing")
    ELSE Out(st1, [reg EXCEPT ![index_name] = NoIndex], "1")

delete_index(st, reg, name) ==
    IF get_value(st, IndexKey(name), "index").err THEN Out(st, reg, "WrongType")
    ELSE IF ~get_value(st, IndexKey(name), "index").some
    THEN Out(st, reg, "IndexMissing")
    ELSE DeleteRegistered([st EXCEPT ![IndexKey(name)] = Empty], reg, IndexKey(name))

\* write_node: [ok, store].
write_node(st, key, nr) ==
    IF get_value(st, key, "node").err THEN [ok |-> FALSE, store |-> st]
    ELSE IF get_value(st, key, "node").some
    THEN [ok |-> TRUE,
          store |-> [st EXCEPT ![key].data = nr.data, ![key].neighbors = nr.neighbors]]
    ELSE [ok |-> TRUE, store |-> [st EXCEPT ![key] = nr]]

\* update_node, the on_mutate callback, for each mutated node in turn:
\* [ok, store]; not ok is the panic of its unwrap.
RECURSIVE update_nodes(_, _, _)
UpdateNext(w, idx, names) ==
    IF ~w.ok THEN [ok |-> FALSE, store |-> w.store]
    ELSE update_nodes(w.store, idx, Tail(names))

update_nodes(st, idx, names) ==
    IF names = <<>> THEN [ok |-> TRUE, store |-> st]
    ELSE UpdateNext(write_node(st, Head(names), NodeRedisFrom(idx.nodes[Head(names)])),
                    idx, names)

\* update_index: [err, store].
update_index(st, index_name, index) ==
    IF get_value(st, index_name, "index").err
    THEN [err |-> "WrongType", store |-> st]
    ELSE IF ~get_value(st, index_name, "index").some
    THEN [err |-> "IndexMissing", store |-> st]
    ELSE [err |-> None, store |-> [st EXCEPT ![index_name] = IndexRedisFrom(index)]]

\* add_node and delete_node, the last stage: the index record is updated.
IndexUpdated(reg1, u, ok) ==
    IF u.err # None THEN Out(u.store, reg1, u.err) ELSE Out(u.store, reg1, ok)

\* add_node, the node written (w): the index record is updated.
AddWritten(reg1, index_name, index, w) ==
    IF ~w.ok THEN Out(w.store, reg1, "WrongType")
    ELSE IndexUpdated(reg1, update_index(w.store, index_name, index), "OK")

\* add_node, the callbacks run (cb): the node is written.
AddMutated(reg1, index_name, node_name, index, cb) ==
    IF ~cb.ok THEN Panic(cb.store)
    ELSE AddWritten(reg1, index_name, index,
             write_node(cb.store, node_name, NodeRedisFrom(index.nodes[node_name])))

\* add_node with the engine's error dropped: the node is looked up and
\* written as after an insertion (the lookup's unwrap panics without it).
AddInserted_DropsError(st, reg, index_name, node_name, added) ==
    IF node_name \notin DOMAIN added.index.nodes THEN Panic(st)
    ELSE AddMutated([reg EXCEPT ![index_name] = added.index], index_name,
        node_name, added.index,
        update_nodes(st, added.index, added.mutated))

\* add_node, the engine's insertion done (added) on the loaded index.
AddInserted(st, reg, index_name, node_name, added) ==
    IF added.err # None THEN Out(st, reg, added.err)
    ELSE AddMutated([reg EXCEPT ![index_name] = added.index], index_name,
             node_name, added.index,
             update_nodes(st, added.index, added.mutated))

\* add_node, the index loaded (ld).
AddLoaded(st, reg, index_name, node_name, data, level, ld) ==
    IF ld.err # None THEN Out(st, reg, ld.err)
    ELSE AddInserted(st, ld.registry, index_name, node_name,
             IndexAddNode(ld.index, node_name, data, level))

add_node(st, reg, name, node, tokens, level) ==
    IF ~ParseVector(tokens).ok THEN Out(st, reg, "ParseError")
    ELSE AddLoaded(st, reg, IndexKey(name), NodeKey(name, node),
             ParseVector(tokens).val, level,
             load_index(st, reg, IndexKey(name)))

\* Arc::strong_count of a node of the index: the strong reference of the node
\* map and those of the `others` that hold the node (design, section 3: an
\* in-flight operation with a strong reference).
StrongCount(idx, node_name, others) == 1 + others

\* delete_node, the callbacks run (cb): the node record is deleted and the
\* index record updated.
DelMutated(reg1, index_name, node_name, index, cb) ==
    IF ~cb.ok THEN Panic(cb.store)
    ELSE IF get_value(cb.store, node_name, "node").err
    THEN Out(cb.store, reg1, "WrongType")
    ELSE IF ~get_value(cb.store, node_name, "node").some
    THEN Out(cb.store, reg1, "NodeMissing")
    ELSE IndexUpdated(reg1,
             update_index([cb.store EXCEPT ![node_name] = Empty], index_name, index),
             "1")

\* delete_node, the engine's deletion done (deleted) on the loaded index.
DelDeleted(st, reg, index_name, node_name, deleted) ==
    IF deleted.err # None THEN Out(st, reg, deleted.err)
    ELSE DelMutated([reg EXCEPT ![index_name] = deleted.index], index_name,
             node_name, deleted.index,
             update_nodes(st, deleted.index, deleted.mutated))

\* delete_node without the look at the strong count.
DelLoaded_NoCount(st, reg, index_name, node_name, pick, others, ld) ==
    IF ld.err # None THEN Out(st, reg, ld.err)
    ELSE IF node_name \notin DOMAIN ld.index.nodes THEN Panic(st)
    ELSE DelDeleted(st, ld.registry, index_name, node_name,
             IndexDeleteNode(ld.index, node_name, pick))

\* delete_node, the index loaded (ld).
DelLoaded(st, reg, index_name, node_name, pick, others, ld) ==
    IF ld.err # None THEN Out(st, reg, ld.err)
    ELSE IF node_name \notin DOMAIN ld.index.nodes THEN Panic(st)
    ELSE IF StrongCount(ld.index, node_name, others) > 1
    THEN Out(st, ld.registry, "NodeBusy")
    ELSE DelDeleted(st, ld.registry, index_name, node_name,
             IndexDeleteNode(ld.index, node_name, pick))

\* delete_node; `pick` is the entry point the engine chooses when it has to,
\* `others` the number of other holders of the node.
delete_node(st, reg, name, node, pick, others) ==
    DelLoaded(st, reg, IndexKey(name), NodeKey(name, node), pick, others,
              load_index(st, reg, IndexKey(name)))

\* The entry points delete_node may be run with.
PicksLoaded(ld, node_name) ==
    IF ld.err = None /\ node_name \in DOMAIN ld.index.nodes
    THEN EnterpointChoices(ld.index, node_name)
    ELSE {None}

DeletePicks(st, reg, name, node) ==
    PicksLoaded(load_index(st, reg, IndexKey(name)), NodeKey(name, node))

get_node(st, reg, name, node) ==
    IF get_value(st, NodeKey(name, node), "node").err THEN Out(st, reg, "WrongType")
    ELSE IF ~get_value(st, NodeKey(name, node), "node").some
    THEN Out(st, reg, "NodeMissing")
    ELSE [Out(st, reg, "OK") EXCEPT !.reply = <<st[NodeKey(name, node)]>>]

\* The reply of hnsw.search: the count, then one (name, distance) per result.
SearchReply(idx, q, res) ==
    <<Len(res)>> \o [j \in 1..Len(res) |->
                        [name |-> res[j], distance |-> DistTo(idx, q, res[j])]]

\* search_knn asking the engine for one result more.
SearchLoaded_OneMore(st, reg, k, data, ld) ==
    IF ld.err # None THEN Out(st, reg, ld.err)
    ELSE [Out(st, ld.registry, "OK") EXCEPT
            !.reply = SearchReply(ld.index, data,
                                  IndexSearchKnn(ld.index, data, k + 1))]

\* search_knn, the index loaded (ld).
SearchLoaded(st, reg, k, data, ld) ==
    IF ld.err # None THEN Out(st, reg, ld.err)
    ELSE [Out(st, ld.registry, "OK") EXCEPT
            !.reply = SearchReply(ld.index, data,
                                  IndexSearchKnn(ld.index, data, k))]

search_knn(st, reg, name, ktoken, tokens) ==
    IF ~parse_unsigned_integer(ktoken).ok \/ ~ParseVector(tokens).ok
    THEN Out(st, reg, "ParseError")
    ELSE SearchLoaded(st, reg, parse_unsigned_integer(ktoken).val,
                      ParseVector(tokens).val,
                      load_index(st, reg, IndexKey(name)))

\* The metric is defined for vectors of one length (design, section 4.1): a
\* search is run with a query of the length of the index's vectors.
DefinedLoaded(ld, tokens) ==
    ld.err = None /\ ParseVector(tokens).ok => Len(tokens) = ld.index.dim

SearchDefined(st, reg, name, tokens) ==
    DefinedLoaded(load_index(st, reg, IndexKey(name)), tokens)

(***************************************************************************)
(* The commands a client sends.                                            *)
(***************************************************************************)
NewArgs == {<<>>, <<"1", "1", "2">>, <<"1", "x">>}
VectorTokens == {<<"0">>, <<"2">>, <<"1", "1">>}
QueryTokens == {<<"2">>}
KTokens == {"0", "2"}
Levels == 0..MaxLevel

Cmd(cmd, index, node, r) ==
    [cmd |-> cmd, index |-> index, node |-> node, res |-> r.res,
     reply |-> r.reply, args |-> <<>>, k |-> 0, q |-> <<>>]

Init ==
    /\ store = [k \in Keys |-> Empty]
    /\ registry = NoRegistry
    /\ last = [cmd |-> "INIT", index |-> None, node |-> None, res |-> "OK",
               reply |-> <<>>, args |-> <<>>, k |-> 0, q |-> <<>>]
    /\ adds = 0
    /\ gil = 0
    /\ rw = "unlocked"
    /\ run = [cmd |-> None, load |-> None, outcome |-> None,
              prog |-> <<>>, pc |-> 1, cb |-> None]

New(i, args) ==
    \E r \in {new_index(store, registry, i, args)} :
    /\ store' = r.store
    /\ registry' = r.registry
    /\ last' = [Cmd("NEW", i, None, r) EXCEPT !.args = args]
    /\ adds' = adds
    /\ UNCHANGED locks

Get(i) ==
    \E r \in {get_index(store, registry, i)} :
    /\ store' = r.store
    /\ registry' = r.registry
    /\ last' = Cmd("GET", i, None, r)
    /\ adds' = adds
    /\ UNCHANGED locks

\* The nodes the persisted record of an index names.
StoredNodes(st, i) ==
    IF st[IndexKey(i)].type = "index" THEN st[IndexKey(i)].nodes ELSE {}

Del(i) ==
    \E r \in {delete_index(store, registry, i)} :
    /\ Cardinality(StoredNodes(store, i)) <= MaxDropNodes
    /\ store' = r.store
    /\ registry' = r.registry
    /\ last' = Cmd("DEL", i, None, r)
    /\ adds' = adds
    /\ UNCHANGED locks

NodeAdd(i, n, tokens, level) ==
    \E r \in {add_node(store, registry, i, n, tokens, level)} :
    /\ store' = r.store
    /\ registry' = r.registry
    /\ last' = [Cmd("NODE.ADD", i, n, r) EXCEPT !.args = tokens]
    /\ r.res = "OK" => adds < MaxAdds
    /\ adds' = IF r.res = "OK" THEN adds + 1 ELSE adds
    /\ UNCHANGED locks

NodeGet(i, n) ==
    \E r \in {get_node(store, registry, i, n)} :
    /\ store' = r.store
    /\ registry' = r.registry
    /\ last' = Cmd("NODE.GET", i, n, r)
    /\ adds' = adds
    /\ UNCHANGED locks

NodeDel(i, n, pick) ==
    \E r \in {delete_node(store, registry, i, n, pick, 0)} :
    /\ store' = r.store
    /\ registry' = r.registry
    /\ last' = Cmd("NODE.DEL", i, n, r)
    /\ adds' = adds
    /\ UNCHANGED locks

Search(i, ktoken, tokens) ==
    \E r \in {search_knn(store, registry, i, ktoken, tokens)} :
    /\ SearchDefined(store, registry, i, tokens)
    /\ store' = r.store
    /\ registry' = r.registry
    /\ last' = [Cmd("SEARCH", i, None, r) EXCEPT
                  !.k = parse_unsigned_integer(ktoken).val,
                  !.q = ParseVector(tokens).val]
    /\ adds' = adds
    /\ UNCHANGED locks

\* The host process stops and starts again: the registry starts empty, the
\* key space is the persisted one.
Restart ==
    /\ store' = store
    /\ registry' = NoRegistry
    /\ last' = Cmd("RESTART", None, None, Out(store, registry, "OK"))
    /\ adds' = adds
    /\ UNCHANGED locks

Next ==
    \/ \E i \in IndexNames, args \in NewArgs : New(i, args)
    \/ \E i \in IndexNames : Get(i)
    \/ \E i \in IndexNames : Del(i)
    \/ \E i \in IndexNames, n \in NodeNames, t \in VectorTokens, l \in Levels :
          NodeAdd(i, n, t, l)
    \/ \E i \in IndexNames, n \in NodeNames : NodeGet(i, n)
    \/ \E i \in IndexNames, n \in NodeNames :
          \E pick \in DeletePicks(store, registry, i, n) : NodeDel(i, n, pick)
    \/ \E i \in IndexNames, k \in KTokens, t \in QueryTokens : Search(i, k, t)
    \/ Restart

Spec == Init /\ [][Next]_vars

(***************************************************************************)
(* The same commands on a flat graph: every sampled level is 0, the index  *)
(* is made with M = 1 (two neighbours at layer 0), and a fourth node can   *)
(* be inserted, so that a list of layer 0 goes over its cap.               *)
(***************************************************************************)
FlatArgs == {<<"1", "1", "2">>}
FlatTokens == {<<"0">>, <<"2">>}

NodeAddFlat(i, n, tokens) ==
    \E r \in {add_node(store, registry, i, n, tokens, 0)} :
    /\ store' = r.store
    /\ registry' = r.registry
    /\ last' = [Cmd("NODE.ADD", i, n, r) EXCEPT !.args = tokens]
    /\ r.res = "OK" => adds < MaxFlatAdds
    /\ adds' = IF r.res = "OK" THEN adds + 1 ELSE adds
    /\ UNCHANGED locks

NextFlat ==
    \/ \E i \in IndexNames, args \in FlatArgs : New(i, args)
    \/ \E i \in IndexNames : Get(i)
    \/ \E i \in IndexNames, n \in MoreNodeNames, t \in FlatTokens :
          NodeAddFlat(i, n, t)
    \/ \E i \in IndexNames, n \in MoreNodeNames :
          \E pick \in DeletePicks(store, registry, i, n) : NodeDel(i, n, pick)
    \/ Restart

SpecFlat == Init /\ [][NextFlat]_vars

(***************************************************************************)
(* The same commands with names that hold a dot: the indices "a" and       *)
(* "a.b", each with the nodes "c" and "b.c", on flat graphs of vectors of  *)
(* one or two components.                                                  *)
(***************************************************************************)
DotArgs == {<<"1", "1", "2">>, <<"2", "1", "2">>}
DotTokens == {<<"0">>, <<"1", "1">>}

\* The metric is defined for vectors of one length (design, section 4.1): the
\* engine is run on an index whose vectors all have the index's length.
UniformLoaded(ld) ==
    ld.err = None =>
        \A n \in DOMAIN ld.index.nodes :
            Len(ld.index.nodes[n].data) = ld.index.dim

MetricDefined(st, reg, name) == UniformLoaded(load_index(st, reg, IndexKey(name)))

NextDots ==
    \/ \E i \in DotIndexNames, args \in DotArgs : New(i, args)
    \/ \E i \in DotIndexNames : Get(i)
    \/ \E i \in DotIndexNames, n \in DotNodeNames, t \in DotTokens :
          MetricDefined(store, registry, i) /\ NodeAdd(i, n, t, 0)
    \/ \E i \in DotIndexNames, n \in DotNodeNames : NodeGet(i, n)
    \/ \E i \in DotIndexNames, n \in DotNodeNames :
          /\ MetricDefined(store, registry, i)
          /\ \E pick \in DeletePicks(store, registry, i, n) : NodeDel(i, n, pick)
    \/ Restart

SpecDots == Init /\ [][NextDots]_vars

(***************************************************************************)
(* The flat graph again, with hnsw.node.del also arriving while another    *)
(* holder has a strong reference to the node.                              *)
(***************************************************************************)
NodeDelHeld(i, n, pick) ==
    \E r \in {delete_node(store, registry, i, n, pick, 1)} :
    /\ store' = r.store
    /\ registry' = r.registry
    /\ last' = Cmd("NODE.DEL", i, n, r)
    /\ adds' = adds
    /\ UNCHANGED locks

NextBusy ==
    \/ NextFlat
    \/ \E i \in IndexNames, n \in MoreNodeNames :
          \E pick \in DeletePicks(store, registry, i, n) : NodeDelHeld(i, n, pick)

SpecBusy == Init /\ [][NextBusy]_vars

(***************************************************************************)
(* The handlers again, at the grain of their lock operations.  A handler   *)
(* is the sequence of what it does to the lock of INDICES, to the          *)
(* registry behind it and to the keys of the store, in the order of its    *)
(* code:                                                                   *)
(*   "lock"         INDICES.write(): the exclusive guard is taken          *)
(*   "unlock"       the guard goes out of scope                            *)
(*   "index_read"   the registry or a loaded index is read                 *)
(*   "index_write"  the registry or a loaded index is changed              *)
(*   "key_read"     get_value on a key of the store                        *)
(*   "key_write"    set_value or delete on a key of the store              *)
(*   "callback"     the engine calls update_node                           *)
(* The host runs a handler on its dispatch thread, which holds the host's  *)
(* global lock for the whole command.  update_node takes that lock again   *)
(* through a thread-safe context.  Whether a lock its holder already has   *)
(* can be taken again is the host's matter and not the module's: taking it *)
(* either succeeds, or waits for a release that never comes.               *)
(***************************************************************************)
Loads == {"loaded", "lazy", "missing"}
Callbacks(n) == [j \in 1..n |-> "callback"]

load_index_ops(load) ==
    IF load = "loaded" THEN <<"index_read">>
    ELSE IF load = "lazy" THEN <<"index_read", "key_read", "index_write">>
    ELSE <<"index_read", "key_read">>

new_index_ops(outcome) ==
    IF outcome = "refused" THEN <<"key_read">>
    ELSE <<"key_read", "key_write", "lock", "index_write", "unlock">>

get_index_ops(load) ==
    <<"lock">> \o load_index_ops(load)
        \o (IF load = "missing" THEN <<>> ELSE <<"index_read">>)
        \o <<"unlock">>

delete_index_ops(load, outcome) ==
    IF outcome = "refused" THEN <<"key_read">>
    ELSE IF load = "loaded"
    THEN <<"key_read", "key_write", "lock", "index_write", "unlock">>
    ELSE <<"key_read", "key_write", "lock", "index_read", "unlock">>

add_node_body(outcome, n) ==
    IF outcome = "refused" THEN <<"index_read">>
    ELSE <<"index_write">> \o Callbacks(n)
             \o <<"index_read", "key_read", "key_write", "key_write">>

add_node_ops_Unguarded(load, outcome, n) ==
    load_index_ops(load)
        \o (IF load = "missing" THEN <<>> ELSE add_node_body(outcome, n))

add_node_ops(load, outcome, n) ==
    <<"lock">> \o load_index_ops(load)
        \o (IF load = "missing" THEN <<>> ELSE add_node_body(outcome, n))
        \o <<"unlock">>

delete_node_body(outcome, n) ==
    IF outcome = "refused" THEN <<"index_read">>
    ELSE <<"index_read", "index_write">> \o Callbacks(n)
             \o <<"key_read", "key_write", "key_write">>

delete_node_ops(load, outcome, n) ==
    <<"lock">> \o load_index_ops(load)
        \o (IF load = "missing" THEN <<>> ELSE delete_node_body(outcome, n))
        \o <<"unlock">>

get_node_ops == <<"key_read">>

search_knn_ops(load) ==
    <<"lock">> \o load_index_ops(load)
        \o (IF load = "missing" THEN <<>> ELSE <<"index_read">>)
        \o <<"unlock">>

Idle == [cmd |-> None, load |-> None, outcome |-> None,
         prog |-> <<>>, pc |-> 1, cb |-> None]

Running(cmd, load, outcome, prog) ==
    [cmd |-> cmd, load |-> load, outcome |-> outcome,
     prog |-> prog, pc |-> 1, cb |-> None]

\* What the handler is about to do.
Op == IF run.cmd = None THEN "idle"
      ELSE IF run.pc > Len(run.prog) THEN "return"
      ELSE run.prog[run.pc]

Advance == run' = [run EXCEPT !.pc = run.pc + 1]

\* The host takes its global lock on the dispatch thread and calls the
\* handler of the command.
Begin(r) ==
    /\ run.cmd = None
    /\ gil = 0
    /\ gil' = 1
    /\ run' = r
    /\ UNCHANGED <<store, registry, last, adds, rw>>

BeginNew == \E o \in {"ok", "refused"} :
    Begin(Running("NEW", None, o, new_index_ops(o)))
BeginGet == \E l \in Loads :
    Begin(Running("GET", l, None, get_index_ops(l)))
BeginDel == \E l \in {"loaded", "missing"}, o \in {"ok", "refused"} :
    Begin(Running("DEL", l, o, delete_index_ops(l, o)))
BeginNodeAdd == \E l \in Loads, o \in {"ok", "refused"}, n \in 1..MaxCallbacks :
    Begin(Running("NODE.ADD", l, o, add_node_ops(l, o, n)))
BeginNodeDel == \E l \in Loads, o \in {"ok", "refused"}, n \in 0..MaxCallbacks :
    Begin(Running("NODE.DEL", l, o, delete_node_ops(l, o, n)))
BeginNodeGet ==
    Begin(Running("NODE.GET", None, None, get_node_ops))
BeginSearch == \E l \in Loads :
    Begin(Running("SEARCH", l, None, search_knn_ops(l)))

Lock ==
    /\ Op = "lock"
    /\ rw = "unlocked"
    /\ rw' = "exclusive"
    /\ Advance
    /\ UNCHANGED <<store, registry, last, adds, gil>>

Unlock ==
    /\ Op = "unlock"
    /\ rw' = "unlocked"
    /\ Advance
    /\ UNCHANGED <<store, registry, last, adds, gil>>

Access ==
    /\ Op \in {"index_read", "index_write", "key_read", "key_write"}
    /\ Advance
    /\ UNCHANGED <<store, registry, last, adds, gil, rw>>

\* update_node: ctx.lock() either takes the lock again or waits for ever.
CallbackLock ==
    /\ Op = "callback"
    /\ run.cb = None
    /\ \/ gil' = gil + 1 /\ run' = [run EXCEPT !.cb = "locked"]
       \/ gil' = gil /\ run' = [run EXCEPT !.cb = "blocked"]
    /\ UNCHANGED <<store, registry, last, adds, rw>>

\* update_node: write_node.
CallbackWrite ==
    /\ Op = "callback"
    /\ run.cb = "locked"
    /\ run' = [run EXCEPT !.cb = "written"]
    /\ UNCHANGED <<store, registry, last, adds, gil, rw>>

\* update_node: ctx.unlock() and back to the engine.
CallbackUnlock ==
    /\ Op = "callback"
    /\ run.cb = "written"
    /\ gil' = gil - 1
    /\ run' = [run EXCEPT !.cb = None, !.pc = run.pc + 1]
    /\ UNCHANGED <<store, registry, last, adds, rw>>

\* The handler returns and the host releases its global lock.
Return ==
    /\ Op = "return"
    /\ gil' = gil - 1
    /\ run' = Idle
    /\ last' = [last EXCEPT !.cmd = run.cmd, !.res = run.outcome]
    /\ UNCHANGED <<store, registry, adds, rw>>

NextLocks ==
    \/ BeginNew
    \/ BeginGet
    \/ BeginDel
    \/ BeginNodeAdd
    \/ BeginNodeDel
    \/ BeginNodeGet
    \/ BeginSearch
    \/ Lock
    \/ Unlock
    \/ Access
    \/ CallbackLock
    \/ CallbackWrite
    \/ CallbackUnlock
    \/ Return

SpecLocks == Init /\ [][NextLocks]_vars

(***************************************************************************)
(* What the claims speak of.                                               *)
(***************************************************************************)
Loaded(i) == registry[IndexKey(i)].present
Graph(i) == registry[IndexKey(i)]
Persisted(i) == store[IndexKey(i)].type = "index"

\* The step is the command cmd on index i (and node n).
IsCmd(cmd, i, n) == last'.cmd = cmd /\ last'.index = i /\ last'.node = n

\* The references a node of the index holds, over all its layers.
Refs(node) == UNION {Range(node.neighbors[j]) : j \in 1..Len(node.neighbors)}

\* The snapshot of an index: its record and the records of its nodes.
Snapshot(idx) ==
    [index |-> IndexRedisFrom(idx),
     nodes |-> [n \in DOMAIN idx.nodes |-> NodeRedisFrom(idx.nodes[n])]]

(***************************************************************************)
(* C1.  NODE.DEL on an existing index with a node name that is not in the  *)
(* index answers UnknownNode and changes nothing: the key space is the     *)
(* same, and the registry is the same but for the index having been        *)
(* loaded.  (Stated as the claim; the handler panics instead.)             *)
(***************************************************************************)
C1_MissingNodeDeleteIsRefused ==
    [][\A i \in IndexNames, n \in NodeNames :
          (/\ IsCmd("NODE.DEL", i, n)
           /\ load_index(store, registry, IndexKey(i)).err = None
           /\ NodeKey(i, n) \notin
                  DOMAIN load_index(store, registry, IndexKey(i)).index.nodes)
          => (/\ last'.res = "UnknownNode"
              /\ store' = store
              /\ registry' = load_index(store, registry, IndexKey(i)).registry)]_vars

(***************************************************************************)
(* C2.  DEL of an index whose record is in the key space answers 1 and     *)
(* leaves the index in neither the key space nor the registry, whether or  *)
(* not the registry held it.  (Stated as the claim; for an index that is   *)
(* persisted and not loaded the handler answers an error.)                 *)
(***************************************************************************)
C2_DeleteIndexAnswersOne ==
    [][\A i \in IndexNames :
          (IsCmd("DEL", i, None) /\ Persisted(i))
          => (/\ last'.res = "1"
              /\ store'[IndexKey(i)] = Empty
              /\ ~registry'[IndexKey(i)].present)]_vars

(***************************************************************************)
(* C3.  Round trip: the index made from the stored records of a loaded     *)
(* index is made without error and has the snapshot of the loaded index.   *)
(***************************************************************************)
RoundTrips(i) ==
    /\ Persisted(i)
    /\ make_index(store, store[IndexKey(i)]).err = None
    /\ Snapshot(make_index(store, store[IndexKey(i)]).index) = Snapshot(Graph(i))

C3_RoundTrip == \A i \in IndexNames : Loaded(i) => RoundTrips(i)

(***************************************************************************)
(* C4.  After a completed NODE.DEL no neighbour list, layer or entry point *)
(* of the index holds a dead reference.                                    *)
(***************************************************************************)
NoDeadRefs(idx) ==
    /\ \A n \in DOMAIN idx.nodes : Refs(idx.nodes[n]) \subseteq DOMAIN idx.nodes
    /\ \A j \in 1..Len(idx.layers) : idx.layers[j] \subseteq DOMAIN idx.nodes
    /\ idx.enterpoint \in DOMAIN idx.nodes \cup {None}

C4_NoDeadRefsAfterDelete ==
    (last.cmd = "NODE.DEL" /\ last.res = "1") => NoDeadRefs(Graph(last.index))

(***************************************************************************)
(* C5.  Entry-point validity: a loaded index has an entry point exactly    *)
(* when it has a node, and the entry point is a node of the index that is  *)
(* a member of the highest layer that is not empty.                        *)
(***************************************************************************)
EntryPointValid(idx) ==
    /\ (idx.enterpoint # None) <=> (DOMAIN idx.nodes # {})
    /\ idx.enterpoint # None =>
          /\ idx.enterpoint \in DOMAIN idx.nodes
          /\ \E j \in 1..Len(idx.layers) :
                /\ idx.enterpoint \in idx.layers[j]
                /\ \A h \in (j + 1)..Len(idx.layers) : idx.layers[h] = {}

C5_EntryPointValid == \A i \in IndexNames : Loaded(i) => EntryPointValid(Graph(i))

\* A node was deleted from a graph that keeps two layers and an entry point.
C5_AfterDelete ==
    /\ last.cmd = "NODE.DEL" /\ last.res = "1"
    /\ Loaded(last.index)
    /\ Len(Graph(last.index).layers) = 2
    /\ Graph(last.index).enterpoint \in Graph(last.index).layers[2]
    /\ Cardinality(Graph(last.index).layers[1]) = 2

(***************************************************************************)
(* C6.  Degree cap: every neighbour list of layer 0 of a loaded index has  *)
(* at most 2 * M entries, every list of a layer above at most M.           *)
(***************************************************************************)
DegreeCapped(idx) ==
    \A n \in DOMAIN idx.nodes :
        \A j \in 1..Len(idx.nodes[n].neighbors) :
            Len(idx.nodes[n].neighbors[j]) <= (IF j = 1 THEN 2 * idx.m ELSE idx.m)

ReplyOrdered(reply) ==
    \A j \in 2..Len(reply) : \A h \in (j + 1)..Len(reply) :
        \/ reply[j].distance < reply[h].distance
        \/ /\ reply[j].distance = reply[h].distance
           /\ KeyRank(reply[j].name) < KeyRank(reply[h].name)

SearchReplyValid(idx, k, q, reply) ==
    /\ Len(reply) >= 1
    /\ reply[1] = Len(reply) - 1
    /\ reply[1] <= k
    /\ \A j \in 2..Len(reply) :
          /\ reply[j].name \in DOMAIN idx.nodes
          /\ reply[j].distance = euclidean(q, idx.nodes[reply[j].name].data)
    /\ ReplyOrdered(reply)
    /\ DOMAIN idx.nodes = {} => reply = <<0>>

C7_SearchReply ==
    (last.cmd = "SEARCH" /\ last.res = "OK")
    => SearchReplyValid(Graph(last.index), last.k, last.q, last.reply)

\* A search that found two nodes at the same distance.
C7_TwoAtEqualDistance ==
    /\ last.cmd = "SEARCH" /\ last.res = "OK"
    /\ last.k = 2
    /\ Len(last.reply) = 3
    /\ last.reply[2].distance = last.reply[3].distance
    /\ Cardinality(DOMAIN Graph(last.index).nodes) = 3

(***************************************************************************)
(* C8.  A command that has to load an index whose records dangle (the      *)
(* index record names a node without a node record, or a node record, a    *)
(* layer or the entry point names a node that is not among the nodes of    *)
(* the index) answers an error and leaves the registry as it was.          *)
(***************************************************************************)
Dangling(st, ir) ==
    \/ \E n \in ir.nodes : st[n].type # "node"
    \/ \E n \in ir.nodes : st[n].type = "node" /\ ~(Refs(st[n]) \subseteq ir.nodes)
    \/ \E j \in 1..Len(ir.layers) : ~(ir.layers[j] \subseteq ir.nodes)
    \/ ir.enterpoint \notin ir.nodes \cup {None}

LoadingCmds == {"GET", "NODE.ADD", "NODE.DEL", "SEARCH"}

IsError(res) == res \notin {"OK", "1"}

C8_DanglingLoadRefused ==
    [][\A i \in IndexNames :
          (/\ last'.cmd \in LoadingCmds /\ last'.index = i
           /\ ~Loaded(i) /\ Persisted(i)
           /\ Dangling(store, store[IndexKey(i)]))
          => (IsError(last'.res) /\ last'.res # "panic" /\ registry' = registry)]_vars

\* GET was refused on an index whose records dangle.
C8_GetRefused ==
    /\ last.cmd = "GET" /\ IsError(last.res)
    /\ ~Loaded(last.index) /\ Persisted(last.index)
    /\ Dangling(store, store[IndexKey(last.index)])

(***************************************************************************)
(* C9.  NEW name with well-formed arguments answers the duplicate-index    *)
(* error, changing neither the key space nor the registry, exactly when    *)
(* the index exists (loaded or only persisted); otherwise it answers OK    *)
(* and the key space and the registry hold an empty index of that name     *)
(* with the given hyperparameters, or the defaults 512, 5, 200.            *)
(***************************************************************************)
WellFormed(args) == \A j \in 1..Len(args) : args[j] \in DOMAIN NumberOf

ArgOr(args, j, default) == IF Len(args) >= j THEN NumberOf[args[j]] ELSE default

EmptyIndexOf(idx, key, args) ==
    /\ idx.name = key
    /\ idx.dim = ArgOr(args, 1, 512)
    /\ idx.m = ArgOr(args, 2, 5)
    /\ idx.ef_construction = ArgOr(args, 3, 200)
    /\ idx.layers = <<>>
    /\ idx.enterpoint = None

NewDone(i, args) ==
    IF Persisted(i) \/ Loaded(i)
    THEN last'.res = "IndexExists" /\ store' = store /\ registry' = registry
    ELSE /\ last'.res = "OK"
         /\ registry'[IndexKey(i)].present
         /\ EmptyIndexOf(registry'[IndexKey(i)], IndexKey(i), args)
         /\ DOMAIN registry'[IndexKey(i)].nodes = {}
         /\ store'[IndexKey(i)].type = "index"
         /\ EmptyIndexOf(store'[IndexKey(i)], IndexKey(i), args)
         /\ store'[IndexKey(i)].nodes = {}
         /\ \A k \in Keys \ {IndexKey(i)} : store'[k] = store[k]
         /\ \A k \in IndexKeys \ {IndexKey(i)} : registry'[k] = registry[k]

C9_NewIndex ==
    [][\A i \in IndexNames :
          (IsCmd("NEW", i, None) /\ WellFormed(last'.args))
          => NewDone(i, last'.args)]_vars

\* NEW was refused for an index that is persisted and not loaded.
C9_RefusedWhenOnlyPersisted ==
    /\ last.cmd = "NEW" /\ last.res = "IndexExists" /\ last.args = <<>>
    /\ Persisted(last.index) /\ ~Loaded(last.index)

(***************************************************************************)
(* C10.  NODE.ADD with the name of a node of the index answers             *)
(* DuplicateNode; the key space is as before, and so is the registry but   *)
(* for the index having been loaded.                                       *)
(***************************************************************************)
C10_DuplicateNodeRefused ==
    [][\A i \in IndexNames, n \in NodeNames :
          (/\ IsCmd("NODE.ADD", i, n)
           /\ load_index(store, registry, IndexKey(i)).err = None
           /\ NodeKey(i, n) \in
                  DOMAIN load_index(store, registry, IndexKey(i)).index.nodes)
          => (/\ last'.res = "DuplicateNode"
              /\ store' = store
              /\ registry' = load_index(store, registry, IndexKey(i)).registry)]_vars

\* A duplicate was refused on an index of three nodes.
C10_DuplicateRefused ==
    /\ last.cmd = "NODE.ADD" /\ last.res = "DuplicateNode"
    /\ Loaded(last.index)
    /\ NodeKey(last.index, last.node) \in DOMAIN Graph(last.index).nodes
    /\ Cardinality(DOMAIN Graph(last.index).nodes) = 3

(***************************************************************************)
(* C11.  Uniform dimensionality: every node of a loaded index, also of one *)
(* loaded again from the key space, holds a vector of the index's dim      *)
(* components; NODE.ADD with a vector of another length fails (with        *)
(* DimensionMismatch when the name is new to the index) and changes        *)
(* nothing.  (Stated as the claim; two indices whose node keys coincide    *)
(* overwrite each other's vectors.)                                        *)
(***************************************************************************)
Uniform(idx) == \A n \in DOMAIN idx.nodes : Len(idx.nodes[n].data) = idx.dim

MismatchRefused(i, n) ==
    LET ld == load_index(store, registry, IndexKey(i)) IN
    (/\ IsCmd("NODE.ADD", i, n)
     /\ ld.err = None
     /\ Len(last'.args) # ld.index.dim)
    => (/\ IF NodeKey(i, n) \in DOMAIN ld.index.nodes
           THEN last'.res \in {"DimensionMismatch", "DuplicateNode"}
           ELSE last'.res = "DimensionMismatch"
        /\ store' = store
        /\ registry' = ld.registry)

C11_UniformDimension ==
    [][/\ \A i \in IndexNames \cup DotIndexNames :
             registry'[IndexKey(i)].present => Uniform(registry'[IndexKey(i)])
       /\ \A i \in IndexNames \cup DotIndexNames,
             n \in MoreNodeNames \cup DotNodeNames : MismatchRefused(i, n)]_vars

(***************************************************************************)
(* C12.  NODE.DEL of a node that another holder has a strong reference to  *)
(* answers NodeBusy; the node stays, and the key space and the graph are   *)
(* as before (the registry but for the index having been loaded).          *)
(***************************************************************************)
HeldDelete(i, n) ==
    \E pick \in DeletePicks(store, registry, i, n) : NodeDelHeld(i, n, pick)

C12_BusyNodeKept ==
    [][\A i \in IndexNames, n \in MoreNodeNames :
          (/\ HeldDelete(i, n)
           /\ load_index(store, registry, IndexKey(i)).err = None
           /\ NodeKey(i, n) \in
                  DOMAIN load_index(store, registry, IndexKey(i)).index.nodes)
          => (/\ last'.res = "NodeBusy"
              /\ store' = store
              /\ registry' = load_index(store, registry, IndexKey(i)).registry
              /\ NodeKey(i, n) \in DOMAIN registry'[IndexKey(i)].nodes)]_vars

\* A held node of a graph of four nodes was asked to be deleted and is kept.
C12_BusyRefused ==
    /\ last.cmd = "NODE.DEL" /\ last.res = "NodeBusy"
    /\ Loaded(last.index)
    /\ NodeKey(last.index, last.node) \in DOMAIN Graph(last.index).nodes
    /\ Cardinality(DOMAIN Graph(last.index).nodes) = 4
    /\ store[NodeKey(last.index, last.node)].type = "node"

(***************************************************************************)
(* C13.  Write-through: after a NODE.ADD or NODE.DEL that succeeded, the   *)
(* stored index record is the snapshot of the index in memory, the node    *)
(* records stored under the index's keys are those of the nodes in memory, *)
(* and each holds the vector and the neighbour names of its node.          *)
(* (Stated as the claim; a reference that died with a deleted node is not  *)
(* written.)                                                               *)
(***************************************************************************)
StoredNodeKeys(i) ==
    {k \in {NodeKey(i, n) : n \in MoreNodeNames \cup DotNodeNames} \cap Keys :
        store[k].type = "node"}

WrittenThrough(i) ==
    /\ Loaded(i)
    /\ store[IndexKey(i)] = IndexRedisFrom(Graph(i))
    /\ StoredNodeKeys(i) = DOMAIN Graph(i).nodes
    /\ \A k \in DOMAIN Graph(i).nodes : store[k] = NodeRedisFrom(Graph(i).nodes[k])

C13_WriteThrough ==
    (last.cmd \in {"NODE.ADD", "NODE.DEL"} /\ last.res \in {"OK", "1"})
    => WrittenThrough(last.index)

\* The handler is at a step that touches the registry, an index or the store.
Touching ==
    Op \in {"index_read", "index_write", "key_read", "key_write", "callback"}

C16_SearchShared ==
    run.cmd = "SEARCH" => (rw # "exclusive" /\ Op # "index_write")

(***************************************************************************)
(* C17.  Index isolation: a command addressed to one index leaves the      *)
(* stored records of every other index (its index record and the node      *)
(* records its node list names) and the other index's in-memory state as   *)
(* they were.  Steps in which the process dies are left aside: they lose   *)
(* every index alike.                                                      *)
(***************************************************************************)
RecordsOf(y) == {IndexKey(y)} \cup StoredNodes(store, y)

Isolated(x, y) ==
    (/\ x # y
     /\ last'.index = x
     /\ last'.res # "panic")
    => (/\ \A key \in RecordsOf(y) : store'[key] = store[key]
        /\ registry'[IndexKey(y)] = registry[IndexKey(y)])

C17_IndexIsolation ==
    [][\A x, y \in DotIndexNames : Isolated(x, y)]_vars

(***************************************************************************)
(* C18.  No orphaned node records: every node record of the store is named *)
(* in the node list of an index record of the store.                       *)
(***************************************************************************)
Orphan(key) ==
    /\ store[key].type = "node"
    /\ \A i \in IndexNames \cup DotIndexNames : key \notin StoredNodes(store, i)

C18_NoOrphans == \A key \in NodeKeys : ~Orphan(key)

(***************************************************************************)
(* C19.  Error atomicity: a command that answers an error leaves the store *)
(* as it was, and the registry as it was but for the index of the command  *)
(* having been loaded.  (A panic is no answer and is left aside.)          *)
(***************************************************************************)
Commands == {"NEW", "GET", "DEL", "NODE.ADD", "NODE.GET", "NODE.DEL", "SEARCH"}

Refused ==
    /\ last'.cmd \in Commands
    /\ IsError(last'.res)
    /\ last'.res # "panic"

C19_ErrorAtomic ==
    [][Refused =>
          /\ store' = store
          /\ \/ registry' = registry
             \/ registry' =
                  load_index(store, registry, IndexKey(last'.index)).registry]_vars

=============================================================================
